---- MODULE Spec2Model ----
(***************************************************************************)
(* License lifecycle manager of the LemonSqueezy VS Code extension.        *)
(*                                                                         *)
(* The model follows the LicenseManager revision that extension.ts drives  *)
(* (refreshLicenseState / activateLicense / validateLicense /              *)
(* deactivateLicense, src/unnamed/part_002 lines 263-1063), the            *)
(* OfflineModeManager (src/src/offline/OfflineModeManager.ts) and the      *)
(* triggers wired up by activate() in src/src/extension.ts.                *)
(*                                                                         *)
(* Time is counted in whole minutes.  Handlers run to completion: one      *)
(* action is one call of a handler together with the responses the         *)
(* licensing authority gives to the requests the call sends.  Each handler *)
(* is an operator from the state it reads, the time of the call and the    *)
(* authority's responses to the state it leaves and what it returns.       *)
(***************************************************************************)
EXTENDS Integers, Sequences, FiniteSets, TLC

(***************************************************************************)
(* Bounds of the model.                                                    *)
(***************************************************************************)
MaxTicks == 1
MaxOfflineTicks == 2

(***************************************************************************)
(* Program constants.                                                      *)
(***************************************************************************)
STORE_ID == 157343
PRODUCT_ID == 463516
MsPerMinute == 60 * 1000
MIN_VALIDATION_INTERVAL == 5 * 60 * 1000
TimerIntervalMs == 24 * 60 * 60 * 1000
KeyLength == 36
DefaultCacheDuration == 72

\* a store and a product of some other vendor
OtherStoreId == STORE_ID + 1
OtherProductId == PRODUCT_ID + 1

(***************************************************************************)
(* Absent values (undefined / null in the source).                         *)
(***************************************************************************)
NoKey == << >>
NoId == "none"
NoTime == 0 - 1

(***************************************************************************)
(* License keys: strings, modelled as tuples of one-character strings.     *)
(***************************************************************************)
HexChars == {"A", "B", "C", "D", "E", "1", "2"}
AlnumChars == HexChars \cup {"Z"}
HyphenPositions == {9, 14, 19, 24}

RECURSIVE Rep(_, _)
Rep(c, n) == IF n = 0 THEN << >> ELSE <<c>> \o Rep(c, n - 1)

\* the key of the documented scenario: AAAAAAAA-BBBB-CCCC-DDDD-EEEEEEEEEEEE
GoodKey == Rep("A", 8) \o <<"-">> \o Rep("B", 4) \o <<"-">> \o Rep("C", 4)
           \o <<"-">> \o Rep("D", 4) \o <<"-">> \o Rep("E", 12)
\* 36 alphanumeric characters, no hyphen groups, not hexadecimal
LooseKey == Rep("Z", 36)
\* one character short
ShortKey == Rep("A", 8) \o <<"-">> \o Rep("B", 4) \o <<"-">> \o Rep("C", 4)
            \o <<"-">> \o Rep("D", 4) \o <<"-">> \o Rep("E", 11)
\* right length, a character outside [a-zA-Z0-9-]
BadCharKey == Rep("A", 8) \o <<"-">> \o Rep("B", 4) \o <<"-">> \o Rep("C", 4)
              \o <<"-">> \o Rep("D", 4) \o <<"-">> \o Rep("E", 11) \o <<"!">>

Keys == {GoodKey, LooseKey, ShortKey, BadCharKey}

\* the shape XXXXXXXX-XXXX-XXXX-XXXX-XXXXXXXXXXXX with hexadecimal X
HexGroupShape(k) ==
    /\ Len(k) = 36
    /\ \A i \in 1..36 :
          IF i \in HyphenPositions THEN k[i] = "-" ELSE k[i] \in HexChars

\* licenseKey?.match(/^[a-zA-Z0-9-]{36}$/)
KeyFormatOK(k) ==
    /\ Len(k) = KeyLength
    /\ \A i \in 1..Len(k) : k[i] \in AlnumChars \cup {"-"}

(***************************************************************************)
(* Responses of the licensing authority (LemonSqueezyResponse).            *)
(* status: "ok" is a 2xx answer with a body; "404", "429", "500" are HTTP  *)
(* errors, "timeout" is a network-level failure.                           *)
(***************************************************************************)
InstanceIds == {"i-1", "i-2"}
ExpiresAt == 100 * 1000
NoMeta == STORE_ID - STORE_ID

NoBody ==
    [kind |-> "none", error |-> FALSE, valid |-> FALSE, activated |-> FALSE,
     deactivated |-> FALSE, store_id |-> NoMeta, product_id |-> NoMeta,
     instance |-> NoId, expires_at |-> NoTime]

MatchingMeta == <<STORE_ID, PRODUCT_ID>>
AbsentMeta == <<NoMeta, NoMeta>>
MismatchedMetas == {<<OtherStoreId, PRODUCT_ID>>, <<STORE_ID, OtherProductId>>}

VBody(v, m, i, e) ==
    [NoBody EXCEPT !.kind = "validate", !.valid = v, !.store_id = m[1],
                   !.product_id = m[2], !.instance = i, !.expires_at = e]

\* bodies of POST /v1/licenses/validate
ValidateBodies ==
    { VBody(TRUE, MatchingMeta, i, NoTime) : i \in InstanceIds \cup {NoId} }
    \cup { VBody(TRUE, MatchingMeta, "i-1", ExpiresAt) }
    \cup { VBody(TRUE, m, i, NoTime) : m \in MismatchedMetas, i \in {NoId, "i-1"} }
    \cup { VBody(FALSE, MatchingMeta, NoId, NoTime) }
    \cup { [VBody(FALSE, MatchingMeta, NoId, NoTime) EXCEPT !.error = TRUE] }

ABody(a, err, m, i, e) ==
    [NoBody EXCEPT !.kind = "activate", !.activated = a, !.error = err,
                   !.store_id = m[1], !.product_id = m[2], !.instance = i,
                   !.expires_at = e]

\* bodies of POST /v1/licenses/activate.  An activation carries the instance
\* it created and the meta of the key (activate is only called after the
\* validate call of the same key reported the configured store and product).
ActivateBodies ==
    { ABody(TRUE, FALSE, MatchingMeta, i, e) :
        i \in InstanceIds, e \in {NoTime, ExpiresAt} }
    \cup { ABody(FALSE, err, AbsentMeta, NoId, NoTime) : err \in BOOLEAN }

\* bodies of POST /v1/licenses/deactivate
DeactivateBodies ==
    { [NoBody EXCEPT !.kind = "deactivate", !.deactivated = d] : d \in BOOLEAN }

ErrorStatuses == {"404", "429", "timeout"}

Outcomes(bodies) ==
    { [status |-> "ok", body |-> b] : b \in bodies }
    \cup { [status |-> st, body |-> NoBody] : st \in ErrorStatuses }

ValidateOutcomes == Outcomes(ValidateBodies)
ActivateOutcomes == Outcomes(ActivateBodies)
DeactivateOutcomes == Outcomes(DeactivateBodies)
NoOutcome == [status |-> "none", body |-> NoBody]

(***************************************************************************)
(* State.                                                                  *)
(***************************************************************************)
VARIABLES
    now,                 \* wall clock, minutes
    ticks,               \* number of clock steps taken
    globalState,         \* context.globalState, the persistent store
    isLicensed,          \* LicenseManager.isLicensed
    apiData,             \* LicenseManager.apiData
    lastValidationCheck, \* LicenseManager.lastValidationCheck
    lmOffline,           \* LicenseManager.offlineMode
    omOffline,           \* OfflineModeManager.offlineMode
    omIsOnline,          \* OfflineModeManager.isOnline
    pc,                  \* position of extension.ts activate()
    timerDue,            \* the 24 h validation interval has elapsed
    lastOp,              \* the step taken last: a handler call, or a clock step
    omCachedAt,          \* time of the last cacheValidLicenseState
    omPingOkSince,       \* a ping succeeded since omCachedAt
    calls,               \* handler calls suspended at a request, oldest first
    validationErrors,    \* LicenseManager.validationErrors, the error history
    retry,               \* the withRetry call under way, or the last one
    cleanupDue,          \* the cleanupErrors interval has elapsed
    config,              \* LicenseManager.config.errorTracking
    trialStartDate       \* LicenseManager.trialStartDate (trial revision)

vars == <<now, ticks, globalState, isLicensed, apiData, lastValidationCheck,
          lmOffline, omOffline, omIsOnline, pc, timerDue, lastOp,
          omCachedAt, omPingOkSince, calls, validationErrors, retry,
          cleanupDue, config, trialStartDate>>

\* OfflineMode as the code reads it: enabled, lastOnlineCheck and the
\* isLicensed flag of cachedLicenseState
OfflineRec(en, t, lic) == [enabled |-> en, lastOnlineCheck |-> t, isLicensed |-> lic]
NoOffline == OfflineRec(FALSE, NoTime, FALSE)

\* config.maxRetries, config.errorTracking.maxErrors and .cleanupInterval
\* (days) of DEFAULT_CONFIG
maxRetries == 3
maxErrors == 100
cleanupInterval == 7
MinutesPerDay == 24 * 60
CleanupPeriod == cleanupInterval * MinutesPerDay

\* DEFAULT_CONFIG.errorTracking
DEFAULT_CONFIG ==
    [maxErrors |-> maxErrors, cleanupInterval |-> cleanupInterval,
     retainFailedAttempts |-> FALSE]

\* how often the interval of startErrorCleanup has fired by time t
CleanupsBy(t) == t \div CleanupPeriod

\* no withRetry call was made yet
NoRetry ==
    [phase |-> "idle", retryable |-> TRUE, i |-> 0, invoked |-> 0,
     failed |-> 0, delays |-> 0, thrownAt |-> 0, n |-> 0]

EmptyStore ==
    [licenseKey |-> NoKey, instanceId |-> NoId, apiData |-> NoBody,
     lastValidated |-> NoTime, validUntil |-> NoTime,
     offlineModeSet |-> FALSE, offlineMode |-> NoOffline,
     trialStartDate |-> NoTime]

\* the initial offlineMode / loadOfflineState(): disabled, nothing cached
DefaultOffline(t) == OfflineRec(FALSE, t, FALSE)

\* globalState.get('offlineMode') || default
LoadOffline(store, t) ==
    IF store.offlineModeSet THEN store.offlineMode ELSE DefaultOffline(t)

\* the LicenseManager and its store as one value
Cur ==
    [gs |-> globalState, isLicensed |-> isLicensed, apiData |-> apiData,
     lastValidationCheck |-> lastValidationCheck, offlineMode |-> lmOffline]

\* what a handler call leaves (st) and reports: its result (ok), the branch
\* taken (path), the requests sent to the validate / activate / deactivate
\* endpoints (nv, na, nd) and the onLicenseChange events fired (fired)
Res(st, ok, path, nv, na, nd, fired) ==
    [st |-> st, ok |-> ok, path |-> path, nv |-> nv, na |-> na, nd |-> nd,
     fired |-> fired]

(***************************************************************************)
(* LicenseManager                                                          *)
(***************************************************************************)
\* mutant: the product of the response is not compared
validateLicenseKeyAnyProduct(key, vout) ==
    IF ~KeyFormatOK(key) THEN [success |-> FALSE, message |-> "format", nv |-> 0]
    ELSE IF vout.status = "404" THEN [success |-> FALSE, message |-> "http404", nv |-> 1]
    ELSE IF vout.status = "429" THEN [success |-> FALSE, message |-> "http429", nv |-> 1]
    ELSE IF vout.status # "ok" THEN [success |-> FALSE, message |-> "apierror", nv |-> 1]
    ELSE IF vout.body.error THEN [success |-> FALSE, message |-> "error", nv |-> 1]
    ELSE IF ~vout.body.valid THEN [success |-> FALSE, message |-> "invalid", nv |-> 1]
    ELSE IF vout.body.store_id # STORE_ID
         THEN [success |-> FALSE, message |-> "store", nv |-> 1]
    ELSE [success |-> TRUE, message |-> "valid", nv |-> 1]

\* validateLicenseKey: the ValidationResponse and the requests sent
validateLicenseKey(key, vout) ==
    IF ~KeyFormatOK(key) THEN [success |-> FALSE, message |-> "format", nv |-> 0]
    ELSE IF vout.status = "404" THEN [success |-> FALSE, message |-> "http404", nv |-> 1]
    ELSE IF vout.status = "429" THEN [success |-> FALSE, message |-> "http429", nv |-> 1]
    ELSE IF vout.status # "ok" THEN [success |-> FALSE, message |-> "apierror", nv |-> 1]
    ELSE IF vout.body.error THEN [success |-> FALSE, message |-> "error", nv |-> 1]
    ELSE IF ~vout.body.valid THEN [success |-> FALSE, message |-> "invalid", nv |-> 1]
    ELSE IF vout.body.store_id # STORE_ID
         THEN [success |-> FALSE, message |-> "store", nv |-> 1]
    ELSE IF vout.body.product_id # PRODUCT_ID
         THEN [success |-> FALSE, message |-> "product", nv |-> 1]
    ELSE [success |-> TRUE, message |-> "valid", nv |-> 1]

\* makeApiRequest: TRUE when it returns response.data, FALSE when it throws
makeApiRequest(out) ==
    /\ out.status = "ok"
    /\ ~out.body.error
    /\ (out.body.store_id # NoMeta =>
            out.body.store_id = STORE_ID /\ out.body.product_id = PRODUCT_ID)
    /\ ~(out.body.kind = "validate" /\ ~out.body.valid)

\* mutant: the activate request is sent whatever validateLicenseKey found
activateLicenseSkipsValidation(s, t, key, vout, aout) ==
    IF s.gs.licenseKey # NoKey THEN Res(s, FALSE, "bound", 0, 0, 0, 0)
    ELSE IF ~KeyFormatOK(key) THEN Res(s, FALSE, "format", 0, 0, 0, 0)
    ELSE LET v == validateLicenseKey(key, vout) IN
    IF ~makeApiRequest(aout)
    THEN Res(s, FALSE, IF v.success THEN "threw" ELSE v.message, v.nv, 1, 0, 0)
    ELSE IF ~aout.body.activated
    THEN Res([s EXCEPT !.apiData = aout.body, !.gs.apiData = aout.body],
             FALSE, IF v.success THEN "notactivated" ELSE v.message, v.nv, 1, 0, 0)
    ELSE Res([s EXCEPT !.apiData = aout.body,
                       !.gs.apiData = aout.body,
                       !.gs.licenseKey = key,
                       !.gs.instanceId = aout.body.instance,
                       !.gs.lastValidated = t,
                       !.gs.validUntil = aout.body.expires_at,
                       !.isLicensed = TRUE],
             TRUE, IF v.success THEN "activated" ELSE v.message, v.nv, 1, 0, 1)

\* mutant: an activate request that failed is sent a second time
activateLicenseResends(s, t, key, vout, aout) ==
    IF s.gs.licenseKey # NoKey THEN Res(s, FALSE, "bound", 0, 0, 0, 0)
    ELSE IF ~KeyFormatOK(key) THEN Res(s, FALSE, "format", 0, 0, 0, 0)
    ELSE LET v == validateLicenseKey(key, vout) IN
    IF ~v.success THEN Res(s, FALSE, v.message, v.nv, 0, 0, 0)
    ELSE IF ~makeApiRequest(aout) THEN Res(s, FALSE, "threw", v.nv, 2, 0, 0)
    ELSE IF ~aout.body.activated
    THEN Res([s EXCEPT !.apiData = aout.body, !.gs.apiData = aout.body],
             FALSE, "notactivated", v.nv, 1, 0, 0)
    ELSE Res([s EXCEPT !.apiData = aout.body,
                       !.gs.apiData = aout.body,
                       !.gs.licenseKey = key,
                       !.gs.instanceId = aout.body.instance,
                       !.gs.lastValidated = t,
                       !.gs.validUntil = aout.body.expires_at,
                       !.isLicensed = TRUE],
             TRUE, "activated", v.nv, 1, 0, 1)

\* mutant: the instance id of the response is not persisted
activateLicenseDropsInstance(s, t, key, vout, aout) ==
    IF s.gs.licenseKey # NoKey THEN Res(s, FALSE, "bound", 0, 0, 0, 0)
    ELSE IF ~KeyFormatOK(key) THEN Res(s, FALSE, "format", 0, 0, 0, 0)
    ELSE LET v == validateLicenseKey(key, vout) IN
    IF ~v.success THEN Res(s, FALSE, v.message, v.nv, 0, 0, 0)
    ELSE IF ~makeApiRequest(aout) THEN Res(s, FALSE, "threw", v.nv, 1, 0, 0)
    ELSE IF ~aout.body.activated
    THEN Res([s EXCEPT !.apiData = aout.body, !.gs.apiData = aout.body],
             FALSE, "notactivated", v.nv, 1, 0, 0)
    ELSE Res([s EXCEPT !.apiData = aout.body,
                       !.gs.apiData = aout.body,
                       !.gs.licenseKey = key,
                       !.gs.lastValidated = t,
                       !.gs.validUntil = aout.body.expires_at,
                       !.isLicensed = TRUE],
             TRUE, "activated", v.nv, 1, 0, 1)

\* mutant: an installation that is already bound is not turned away
activateLicenseRebinds(s, t, key, vout, aout) ==
    IF ~KeyFormatOK(key) THEN Res(s, FALSE, "format", 0, 0, 0, 0)
    ELSE LET v == validateLicenseKey(key, vout) IN
    IF ~v.success THEN Res(s, FALSE, v.message, v.nv, 0, 0, 0)
    ELSE IF ~makeApiRequest(aout) THEN Res(s, FALSE, "threw", v.nv, 1, 0, 0)
    ELSE IF ~aout.body.activated
    THEN Res([s EXCEPT !.apiData = aout.body, !.gs.apiData = aout.body],
             FALSE, "notactivated", v.nv, 1, 0, 0)
    ELSE Res([s EXCEPT !.apiData = aout.body,
                       !.gs.apiData = aout.body,
                       !.gs.licenseKey = key,
                       !.gs.instanceId = aout.body.instance,
                       !.gs.lastValidated = t,
                       !.gs.validUntil = aout.body.expires_at,
                       !.isLicensed = TRUE],
             TRUE, "activated", v.nv, 1, 0, 1)

\* activateLicense
activateLicense(s, t, key, vout, aout) ==
    IF s.gs.licenseKey # NoKey THEN Res(s, FALSE, "bound", 0, 0, 0, 0)
    ELSE IF ~KeyFormatOK(key) THEN Res(s, FALSE, "format", 0, 0, 0, 0)
    ELSE LET v == validateLicenseKey(key, vout) IN
    IF ~v.success THEN Res(s, FALSE, v.message, v.nv, 0, 0, 0)
    ELSE IF ~makeApiRequest(aout) THEN Res(s, FALSE, "threw", v.nv, 1, 0, 0)
    ELSE IF ~aout.body.activated
    THEN Res([s EXCEPT !.apiData = aout.body, !.gs.apiData = aout.body],
             FALSE, "notactivated", v.nv, 1, 0, 0)
    ELSE Res([s EXCEPT !.apiData = aout.body,
                       !.gs.apiData = aout.body,
                       !.gs.licenseKey = key,
                       !.gs.instanceId = aout.body.instance,
                       !.gs.lastValidated = t,
                       !.gs.validUntil = aout.body.expires_at,
                       !.isLicensed = TRUE],
             TRUE, "activated", v.nv, 1, 0, 1)

\* licenseKey and instanceId are both persisted
Bound(s) == s.gs.licenseKey # NoKey /\ s.gs.instanceId # NoId

\* mutant: the request is sent without looking for a bound key
deactivateLicenseUnguarded(s, dout) ==
    Res([s EXCEPT !.gs.licenseKey = NoKey, !.gs.instanceId = NoId,
                  !.gs.apiData = NoBody, !.apiData = NoBody,
                  !.isLicensed = FALSE],
        dout.status = "ok",
        IF dout.status = "ok" THEN "cleared" ELSE "apierror", 0, 0, 1, 1)

\* mutant: only the persisted state is cleared, the flag is left alone
deactivateLicenseKeepsFlag(s, dout) ==
    IF ~Bound(s) THEN Res(s, FALSE, "noactive", 0, 0, 0, 0)
    ELSE Res([s EXCEPT !.gs.licenseKey = NoKey, !.gs.instanceId = NoId,
                       !.gs.apiData = NoBody, !.apiData = NoBody],
             dout.status = "ok",
             IF dout.status = "ok" THEN "cleared" ELSE "apierror", 0, 0, 1, 1)

\* deactivateLicense: local state is cleared, then the request is sent
deactivateLicense(s, dout) ==
    IF ~Bound(s) THEN Res(s, FALSE, "noactive", 0, 0, 0, 0)
    ELSE Res([s EXCEPT !.gs.licenseKey = NoKey, !.gs.instanceId = NoId,
                       !.gs.apiData = NoBody, !.apiData = NoBody,
                       !.isLicensed = FALSE],
             dout.status = "ok",
             IF dout.status = "ok" THEN "cleared" ELSE "apierror", 0, 0, 1, 1)

\* the acceptance test of validateLicense and refreshLicenseState
LiveAccepts(out) ==
    /\ out.body.valid
    /\ out.body.store_id = STORE_ID
    /\ out.body.product_id = PRODUCT_ID

\* mutant: every failed validate request is treated like a 404
refreshLicenseStateDropsOnError(s, t, vout, dout) ==
    IF ~Bound(s)
    THEN Res([s EXCEPT !.isLicensed = FALSE, !.apiData = NoBody,
                       !.gs.apiData = NoBody],
             TRUE, "nokey", 0, 0, 0, 1)
    ELSE IF vout.status = "ok"
    THEN IF LiveAccepts(vout) /\ vout.body.instance = s.gs.instanceId
         THEN Res([s EXCEPT !.isLicensed = TRUE, !.apiData = vout.body,
                            !.gs.apiData = vout.body,
                            !.gs.lastValidated = t,
                            !.gs.validUntil = IF vout.body.expires_at # NoTime
                                              THEN vout.body.expires_at ELSE @],
                  TRUE, "accepted", 1, 0, 0, 2)
         ELSE Res([s EXCEPT !.isLicensed = FALSE, !.apiData = NoBody,
                            !.gs.apiData = NoBody, !.gs.licenseKey = NoKey,
                            !.gs.instanceId = NoId, !.gs.lastValidated = NoTime,
                            !.gs.validUntil = NoTime],
                  TRUE, "rejected", 1, 0, 0, 2)
    ELSE LET d == deactivateLicense(s, dout)
         IN Res(d.st, TRUE, "http404", 1, 0, d.nd, d.fired + 2)

\* refreshLicenseState (it returns nothing: ok is TRUE)
refreshLicenseState(s, t, vout, dout) ==
    IF ~Bound(s)
    THEN Res([s EXCEPT !.isLicensed = FALSE, !.apiData = NoBody,
                       !.gs.apiData = NoBody],
             TRUE, "nokey", 0, 0, 0, 1)
    ELSE IF vout.status = "ok"
    THEN IF LiveAccepts(vout) /\ vout.body.instance = s.gs.instanceId
         THEN Res([s EXCEPT !.isLicensed = TRUE, !.apiData = vout.body,
                            !.gs.apiData = vout.body,
                            !.gs.lastValidated = t,
                            !.gs.validUntil = IF vout.body.expires_at # NoTime
                                              THEN vout.body.expires_at ELSE @],
                  TRUE, "accepted", 1, 0, 0, 2)
         ELSE Res([s EXCEPT !.isLicensed = FALSE, !.apiData = NoBody,
                            !.gs.apiData = NoBody, !.gs.licenseKey = NoKey,
                            !.gs.instanceId = NoId, !.gs.lastValidated = NoTime,
                            !.gs.validUntil = NoTime],
                  TRUE, "rejected", 1, 0, 0, 2)
    ELSE IF vout.status = "404"
    THEN LET d == deactivateLicense(s, dout)
         IN Res(d.st, TRUE, "http404", 1, 0, d.nd, d.fired + 2)
    ELSE Res(s, TRUE, "apierror", 1, 0, 0, 2)

\* handleOfflineValidation: lastOnlineCheck + cacheDuration hours (setHours)
handleOfflineValidation(off, t, cacheDuration) ==
    /\ t < off.lastOnlineCheck + cacheDuration * 60
    /\ off.isLicensed

\* now - lastValidationCheck < MIN_VALIDATION_INTERVAL
RateLimited(s, t) ==
    (t - s.lastValidationCheck) * MsPerMinute < MIN_VALIDATION_INTERVAL

\* mutant: a failed validate request revokes the verdict
validateLicenseFailsClosed(s, t, vout) ==
    IF s.offlineMode.enabled
    THEN Res(s, handleOfflineValidation(s.offlineMode, t, DefaultCacheDuration),
             "offline", 0, 0, 0, 0)
    ELSE IF RateLimited(s, t) THEN Res(s, s.isLicensed, "ratelimited", 0, 0, 0, 0)
    ELSE LET s1 == [s EXCEPT !.lastValidationCheck = t] IN
    IF ~Bound(s) THEN Res(s1, FALSE, "nokey", 0, 0, 0, 0)
    ELSE IF vout.status # "ok"
    THEN Res([s1 EXCEPT !.isLicensed = FALSE], FALSE, "apierror", 1, 0, 0, 0)
    ELSE IF LiveAccepts(vout)
    THEN Res([s1 EXCEPT !.isLicensed = TRUE, !.apiData = vout.body,
                        !.gs.apiData = vout.body, !.gs.lastValidated = t],
             TRUE, "accepted", 1, 0, 0, 1)
    ELSE Res([s1 EXCEPT !.isLicensed = FALSE], FALSE, "rejected", 1, 0, 0, 1)

\* mutant: a rejection clears the flag without updateStatusBarItem
validateLicenseSilentRejection(s, t, vout) ==
    IF s.offlineMode.enabled
    THEN Res(s, handleOfflineValidation(s.offlineMode, t, DefaultCacheDuration),
             "offline", 0, 0, 0, 0)
    ELSE IF RateLimited(s, t) THEN Res(s, s.isLicensed, "ratelimited", 0, 0, 0, 0)
    ELSE LET s1 == [s EXCEPT !.lastValidationCheck = t] IN
    IF ~Bound(s) THEN Res(s1, FALSE, "nokey", 0, 0, 0, 0)
    ELSE IF vout.status # "ok" THEN Res(s1, FALSE, "apierror", 1, 0, 0, 0)
    ELSE IF LiveAccepts(vout)
    THEN Res([s1 EXCEPT !.isLicensed = TRUE, !.apiData = vout.body,
                        !.gs.apiData = vout.body, !.gs.lastValidated = t],
             TRUE, "accepted", 1, 0, 0, 1)
    ELSE Res([s1 EXCEPT !.isLicensed = FALSE], FALSE, "rejected", 1, 0, 0, 0)

\* validateLicense.  The operation handed to withRetry never throws (its
\* try/catch turns a failed request into the result false), so it runs once.
validateLicense(s, t, vout) ==
    IF s.offlineMode.enabled
    THEN Res(s, handleOfflineValidation(s.offlineMode, t, DefaultCacheDuration),
             "offline", 0, 0, 0, 0)
    ELSE IF RateLimited(s, t) THEN Res(s, s.isLicensed, "ratelimited", 0, 0, 0, 0)
    ELSE LET s1 == [s EXCEPT !.lastValidationCheck = t] IN
    IF ~Bound(s) THEN Res(s1, FALSE, "nokey", 0, 0, 0, 0)
    ELSE IF vout.status # "ok" THEN Res(s1, FALSE, "apierror", 1, 0, 0, 0)
    ELSE IF LiveAccepts(vout)
    THEN Res([s1 EXCEPT !.isLicensed = TRUE, !.apiData = vout.body,
                        !.gs.apiData = vout.body, !.gs.lastValidated = t],
             TRUE, "accepted", 1, 0, 0, 1)
    ELSE Res([s1 EXCEPT !.isLicensed = FALSE], FALSE, "rejected", 1, 0, 0, 1)

isFeatureAvailable(s) == s.isLicensed

\* getLicenseState(): the fields the claims read
getLicenseState(s) ==
    [isLicensed |-> s.isLicensed, licenseKey |-> s.gs.licenseKey,
     instanceId |-> s.gs.instanceId, lastValidated |-> s.gs.lastValidated,
     validUntil |-> s.gs.validUntil, data |-> s.apiData]

(***************************************************************************)
(* OfflineModeManager                                                      *)
(***************************************************************************)
\* mutant: the cached verdict is not consulted
isOfflineValidIgnoresVerdict(off, t, cacheDuration) ==
    /\ off.enabled
    /\ (t - off.lastOnlineCheck) < cacheDuration

\* isOfflineValid: minutes since the last check against cacheDuration
isOfflineValid(off, t, cacheDuration) ==
    /\ off.enabled
    /\ off.isLicensed
    /\ (t - off.lastOnlineCheck) < cacheDuration

(***************************************************************************)
(* Init: a fresh installation right after LicenseManager and               *)
(* OfflineModeManager were constructed on an empty store at time 0.        *)
(***************************************************************************)
OpRec(op, r, key) ==
    [op |-> op, ok |-> r.ok, path |-> r.path, nv |-> r.nv, na |-> r.na,
     nd |-> r.nd, fired |-> r.fired, key |-> key]

Constructed == Res(Cur, TRUE, "construct", 0, 0, 0, 1)

Init ==
    /\ now = 0
    /\ ticks = 0
    /\ globalState = EmptyStore
    /\ isLicensed = FALSE
    /\ apiData = NoBody
    /\ lastValidationCheck = 0
    /\ lmOffline = DefaultOffline(0)
    /\ omOffline = DefaultOffline(0)
    /\ omIsOnline = TRUE
    /\ pc = "ctorRefresh"
    /\ timerDue = FALSE
    /\ lastOp = OpRec("construct", Constructed, NoKey)
    /\ omCachedAt = NoTime
    /\ omPingOkSince = FALSE
    /\ calls = << >>
    /\ validationErrors = << >>
    /\ retry = NoRetry
    /\ cleanupDue = FALSE
    /\ config = DEFAULT_CONFIG
    /\ trialStartDate = NoTime

\* a handler call completes: its state is written back and the call recorded
Apply(op, r, key) ==
    /\ globalState' = r.st.gs
    /\ isLicensed' = r.st.isLicensed
    /\ apiData' = r.st.apiData
    /\ lastValidationCheck' = r.st.lastValidationCheck
    /\ lmOffline' = r.st.offlineMode
    /\ lastOp' = OpRec(op, r, key)

\* the responses a call can consume
ValidateAnswers(sent) == IF sent THEN ValidateOutcomes ELSE {NoOutcome}
\* validateLicenseKey sends the key without an instance_id: the answer
\* names no instance
KeyValidateAnswers(sent) ==
    IF sent THEN {o \in ValidateOutcomes : o.body.instance = NoId} ELSE {NoOutcome}
DeactivateAnswers(sent) == IF sent THEN DeactivateOutcomes ELSE {NoOutcome}
ActivateAnswers(sent) == IF sent THEN ActivateOutcomes ELSE {NoOutcome}

CallRefresh ==
    \E vout \in ValidateAnswers(Bound(Cur)) :
      \E dout \in DeactivateAnswers(vout.status = "404") :
        Apply("refresh", refreshLicenseState(Cur, now, vout, dout), NoKey)

CallValidate ==
    \E vout \in ValidateAnswers(validateLicense(Cur, now, NoOutcome).nv > 0) :
        Apply("validate", validateLicense(Cur, now, vout), NoKey)

CallActivate ==
    \E key \in Keys :
      \E vout \in KeyValidateAnswers(validateLicenseKey(key, NoOutcome).nv > 0
                                     /\ globalState.licenseKey = NoKey) :
        \E aout \in ActivateAnswers(activateLicense(Cur, now, key, vout, NoOutcome).na > 0) :
          Apply("activate", activateLicense(Cur, now, key, vout, aout), key)

CallDeactivate ==
    \E dout \in DeactivateAnswers(Bound(Cur)) :
        Apply("deactivate", deactivateLicense(Cur, dout), NoKey)

omVars == <<omOffline, omIsOnline, omCachedAt, omPingOkSince>>
\* the handlers of the LicenseManager never call logError themselves, and
\* the closure validateLicense hands to withRetry catches what it throws
errVars == <<validationErrors, retry, cleanupDue>>
\* the configuration is read once, by loadConfig in the constructor; the
\* trial belongs to the earlier revision of the LicenseManager
fixedVars == <<config, trialStartDate>>
hostFrame == <<now, ticks, omVars, calls, errVars, fixedVars>>

\* a step that is not a LicenseManager handler call
Step(op, ok) == Res(Cur, ok, op, 0, 0, 0, 0)

(***************************************************************************)
(* extension.ts activate(): the triggers.                                  *)
(***************************************************************************)
\* refreshLicenseState().catch(...) at the end of the constructor
StartupCtorRefresh ==
    /\ pc = "ctorRefresh"
    /\ CallRefresh
    /\ pc' = "activateRefresh"
    /\ UNCHANGED <<timerDue, hostFrame>>

\* await licenseManager.refreshLicenseState() on startup
StartupRefresh ==
    /\ pc = "activateRefresh"
    /\ CallRefresh
    /\ pc' = "activateValidate"
    /\ UNCHANGED <<timerDue, hostFrame>>

\* await licenseManager.validateLicense(), then setInterval(..., 24 h)
StartupValidate ==
    /\ pc = "activateValidate"
    /\ CallValidate
    /\ pc' = "running"
    /\ timerDue' = FALSE
    /\ UNCHANGED hostFrame

\* onDidChangeWindowState with e.focused
WindowFocus ==
    /\ pc = "running"
    /\ CallRefresh
    /\ UNCHANGED <<pc, timerDue, hostFrame>>

\* the 24 h interval fires
PeriodicValidation ==
    /\ pc = "running"
    /\ timerDue
    /\ CallValidate
    /\ timerDue' = FALSE
    /\ UNCHANGED <<pc, hostFrame>>

\* activate-license message of the subscription panel
ActivateCommand ==
    /\ pc = "running"
    /\ CallActivate
    /\ UNCHANGED <<pc, timerDue, hostFrame>>

\* extension.deactivateLicense / deactivate-license message
DeactivateCommand ==
    /\ pc = "running"
    /\ CallDeactivate
    /\ UNCHANGED <<pc, timerDue, hostFrame>>

\* the process is restarted: the singletons are constructed again on the
\* persisted store
Restart ==
    /\ pc = "running"
    /\ isLicensed' = (globalState.licenseKey # NoKey)
    /\ apiData' = globalState.apiData
    /\ lastValidationCheck' = now
    /\ lmOffline' = LoadOffline(globalState, now)
    /\ omOffline' = LoadOffline(globalState, now)
    /\ omIsOnline' = TRUE
    /\ pc' = "ctorRefresh"
    /\ timerDue' = FALSE
    /\ lastOp' = OpRec("construct", Constructed, NoKey)
    /\ calls' = << >>
    /\ validationErrors' = << >>
    /\ retry' = NoRetry
    /\ cleanupDue' = FALSE
    /\ UNCHANGED <<now, ticks, globalState, omCachedAt, omPingOkSince, fixedVars>>

(***************************************************************************)
(* The clock.                                                              *)
(***************************************************************************)
TickFrame == <<globalState, isLicensed, apiData, lastValidationCheck, lmOffline,
               omOffline, omIsOnline, pc, omCachedAt, omPingOkSince, calls,
               validationErrors, retry, fixedVars>>

\* time passes; a cleanupErrors that is due runs first, and one that finds
\* the history empty changes nothing and is left out
Advance(d, max) ==
    /\ ticks < max
    /\ ~cleanupDue
    /\ now' = now + d
    /\ ticks' = ticks + 1
    /\ timerDue' = (timerDue \/ (pc = "running" /\ d * MsPerMinute >= TimerIntervalMs))
    /\ cleanupDue' = (validationErrors # << >>
                       /\ CleanupsBy(now + d) > CleanupsBy(now))
    /\ lastOp' = OpRec("tick", Step("tick", TRUE), NoKey)
    /\ UNCHANGED TickFrame

Deltas == {MIN_VALIDATION_INTERVAL \div MsPerMinute, TimerIntervalMs \div MsPerMinute}

Tick == \E d \in Deltas : Advance(d, MaxTicks)

(***************************************************************************)
(* OfflineModeManager steps.                                               *)
(***************************************************************************)
\* updateOfflineState: merge and persist
updateOfflineState(off) ==
    /\ omOffline' = off
    /\ globalState' = [globalState EXCEPT !.offlineModeSet = TRUE,
                                          !.offlineMode = off]

\* checkConnectivity: one ping, answered (ok) or failed
checkConnectivity(ok) ==
    /\ omIsOnline' = ok
    /\ updateOfflineState([omOffline EXCEPT !.lastOnlineCheck = now])
    /\ omPingOkSince' = (omPingOkSince \/ ok)
    /\ lastOp' = OpRec("checkConnectivity", Step("checkConnectivity", ok), NoKey)
    /\ UNCHANGED omCachedAt

\* cacheValidLicenseState(licenseState), lic = licenseState.isLicensed
cacheValidLicenseState(lic) ==
    /\ updateOfflineState([omOffline EXCEPT !.lastOnlineCheck = now,
                                            !.isLicensed = lic])
    /\ omCachedAt' = now
    /\ omPingOkSince' = FALSE
    /\ lastOp' = OpRec("cacheValidLicenseState", Step("cacheValidLicenseState", lic), NoKey)
    /\ UNCHANGED omIsOnline

enableOfflineMode ==
    /\ updateOfflineState([omOffline EXCEPT !.enabled = TRUE])
    /\ lastOp' = OpRec("enableOfflineMode", Step("enableOfflineMode", TRUE), NoKey)
    /\ UNCHANGED <<omIsOnline, omCachedAt, omPingOkSince>>

disableOfflineMode ==
    /\ updateOfflineState([omOffline EXCEPT !.enabled = FALSE])
    /\ lastOp' = OpRec("disableOfflineMode", Step("disableOfflineMode", TRUE), NoKey)
    /\ UNCHANGED <<omIsOnline, omCachedAt, omPingOkSince>>

omFrame == <<isLicensed, apiData, lastValidationCheck, lmOffline, pc, timerDue,
             now, ticks, calls, errVars, fixedVars>>

ConnectivityCheck ==
    /\ pc = "running"
    /\ \E ok \in BOOLEAN : checkConnectivity(ok)
    /\ UNCHANGED omFrame

CacheVerdict ==
    /\ pc = "running"
    /\ \E lic \in BOOLEAN : cacheValidLicenseState(lic)
    /\ UNCHANGED omFrame

EnableOffline ==
    /\ pc = "running"
    /\ enableOfflineMode
    /\ UNCHANGED omFrame

DisableOffline ==
    /\ pc = "running"
    /\ disableOfflineMode
    /\ UNCHANGED omFrame

\* isOfflineValid(config) is asked
OfflineValidQuery ==
    /\ pc = "running"
    /\ lastOp' = OpRec("isOfflineValid",
                       Step("isOfflineValid",
                            isOfflineValid(omOffline, now, DefaultCacheDuration)),
                       NoKey)
    /\ UNCHANGED <<globalState, omVars, omFrame>>

DeltasOffline == {1, DefaultCacheDuration - 1, DefaultCacheDuration * 60 - 1}

TickOffline == \E d \in DeltasOffline : Advance(d, MaxOfflineTicks)

Next ==
    \/ StartupCtorRefresh
    \/ StartupRefresh
    \/ StartupValidate
    \/ WindowFocus
    \/ PeriodicValidation
    \/ ActivateCommand
    \/ DeactivateCommand
    \/ Restart
    \/ Tick

Spec == Init /\ [][Next]_vars

\* the offline cache: the OfflineModeManager, the clock over the grace
\* window and the LicenseManager reading the persisted offline state
NextOffline ==
    \/ StartupCtorRefresh
    \/ StartupRefresh
    \/ StartupValidate
    \/ PeriodicValidation
    \/ ConnectivityCheck
    \/ CacheVerdict
    \/ EnableOffline
    \/ DisableOffline
    \/ OfflineValidQuery
    \/ Restart
    \/ TickOffline

SpecOffline == Init /\ [][NextOffline]_vars

(***************************************************************************)
(* Properties of activation, validation and deactivation, under Spec.      *)
(***************************************************************************)
\* C1: for every key that does not have the hyphenated hex-group shape
\* (8-4-4-4-12 hexadecimal characters), activateLicense returns a failure and
\* sends no request, neither validate nor activate.
C1_MalformedKeyNoRequest ==
    (lastOp.op = "activate" /\ ~HexGroupShape(lastOp.key))
        => (~lastOp.ok /\ lastOp.nv = 0 /\ lastOp.na = 0)

\* answers to a validate request that report valid: true for another store
\* or another product
MismatchedAnswers ==
    { o \in ValidateOutcomes :
        /\ o.status = "ok"
        /\ o.body.valid
        /\ o.body.store_id # NoMeta
        /\ (o.body.store_id # STORE_ID \/ o.body.product_id # PRODUCT_ID) }

\* C2: whenever the authority's answer names another store or another
\* product, activateLicense fails (and goes no further: no activate request,
\* nothing changed) and a validateLicense that consumed the answer returns
\* false and leaves isLicensed false, although the answer says valid: true.
C2_MismatchRejected ==
    \A vout \in MismatchedAnswers :
        /\ \A key \in Keys : \A aout \in ActivateOutcomes :
             LET r == activateLicense(Cur, now, key, vout, aout)
             IN  ~r.ok /\ r.na = 0 /\ r.st = Cur
        /\ LET r == validateLicense(Cur, now, vout)
           IN  r.nv = 1 => (~r.ok /\ ~isFeatureAvailable(r.st))

\* an activation was refused because the answer named another store or
\* product
C2_Witness ==
    /\ lastOp.op = "activate"
    /\ lastOp.path \in {"store", "product"}
    /\ lastOp.nv = 1
    /\ ~lastOp.ok

C9_ActivationBindsInstance ==
    \A key \in Keys : \A vout \in KeyValidateAnswers(TRUE) :
      \A aout \in ActivateOutcomes :
        LET r == activateLicense(Cur, now, key, vout, aout) IN
        ( /\ r.nv = 1 /\ r.na = 1
          /\ vout.status = "ok" /\ LiveAccepts(vout)
          /\ aout.status = "ok" /\ aout.body.activated )
        => ( /\ r.ok
             /\ r.st.isLicensed
             /\ r.st.gs.licenseKey = key
             /\ r.st.gs.instanceId = aout.body.instance )

\* an activation succeeded and bound an instance
C9_Witness ==
    /\ lastOp.op = "activate"
    /\ lastOp.ok
    /\ lastOp.na = 1
    /\ isLicensed
    /\ globalState.licenseKey = lastOp.key
    /\ globalState.instanceId \in InstanceIds

(***************************************************************************)
(* Properties of the re-validation entry points, under Spec.               *)
(***************************************************************************)
\* C4: two calls of refreshLicenseState on a bound key with no time between
\* them (so less than MIN_VALIDATION_INTERVAL apart) send exactly one
\* validate request in total: the second call sends none.
C4_SecondRefreshSendsNothing ==
    Bound(Cur) =>
        \A v1 \in ValidateOutcomes : \A v2 \in ValidateOutcomes :
          \A dout \in DeactivateOutcomes :
            LET r1 == refreshLicenseState(Cur, now, v1, dout)
                r2 == refreshLicenseState(r1.st, now, v2, dout)
            IN  Bound(r1.st) => (r1.nv + r2.nv = 1 /\ r2.nv = 0)

\* the calls the background triggers make
BackgroundOps == {"refresh", "validate"}

\* C5: a background trigger (start, window focus, 24 h timer) that follows
\* one that sent a validate request, with no time passed in between, sends no
\* validate request: at most one live request per MIN_VALIDATION_INTERVAL.
C5_OneLiveValidationPerWindow ==
    [][ ( /\ lastOp.op \in BackgroundOps /\ lastOp.nv > 0
          /\ lastOp'.op \in BackgroundOps /\ now' = now )
        => lastOp'.nv = 0 ]_vars

\* C10: after a refresh of a bound key whose validate request was answered
\* with HTTP 404, licenseKey, instanceId, apiData, lastValidated and
\* validUntil are all absent and isLicensed is false.
C10_NotFoundClearsEverything ==
    (lastOp.op = "refresh" /\ lastOp.path = "http404") =>
        /\ globalState.licenseKey = NoKey
        /\ globalState.instanceId = NoId
        /\ globalState.apiData = NoBody
        /\ apiData = NoBody
        /\ globalState.lastValidated = NoTime
        /\ globalState.validUntil = NoTime
        /\ ~isLicensed

(***************************************************************************)
(* Properties of the offline cache, under SpecOffline.                     *)
(***************************************************************************)
\* the configured cacheDuration, 72 hours, in minutes
GraceMinutes == DefaultCacheDuration * 60

\* C6: with cacheDuration 72 (hours) and a licensed verdict cached at T and
\* not updated since, the offline check (isOfflineValid, and validateLicense
\* through handleOfflineValidation) is true at T + 71h59m and false at
\* T + 72h01m.
C6_GraceBoundaryAt72Hours ==
    /\ ( /\ lastOp.op = "isOfflineValid"
         /\ omOffline.enabled /\ omOffline.isLicensed
         /\ omCachedAt # NoTime /\ omOffline.lastOnlineCheck = omCachedAt )
       => ( /\ (now = omCachedAt + GraceMinutes - 1 => lastOp.ok)
            /\ (now = omCachedAt + GraceMinutes + 1 => ~lastOp.ok) )
    /\ ( /\ lastOp.op = "validate" /\ lastOp.path = "offline"
         /\ lmOffline.isLicensed
         /\ omCachedAt # NoTime /\ lmOffline.lastOnlineCheck = omCachedAt )
       => ( /\ (now = omCachedAt + GraceMinutes - 1 => lastOp.ok)
            /\ (now = omCachedAt + GraceMinutes + 1 => ~lastOp.ok) )

\* C7: the offline check answers true only if offline mode is enabled, the
\* cached verdict is licensed and less than cacheDuration (72 hours) have
\* passed since lastOnlineCheck; a cached verdict that is not licensed never
\* yields true.
C7_OfflineOnlyWhenTrusted ==
    /\ (lastOp.op = "isOfflineValid" /\ lastOp.ok)
       => ( /\ omOffline.enabled
            /\ omOffline.isLicensed
            /\ now - omOffline.lastOnlineCheck < GraceMinutes )
    /\ (lastOp.op = "validate" /\ lastOp.path = "offline" /\ lastOp.ok)
       => ( /\ lmOffline.enabled
            /\ lmOffline.isLicensed
            /\ now - lmOffline.lastOnlineCheck < GraceMinutes )

\* isOfflineValid answered true some time after the verdict was cached
C7_Witness ==
    /\ lastOp.op = "isOfflineValid"
    /\ lastOp.ok
    /\ omCachedAt # NoTime
    /\ now > omCachedAt

\* C8: when no ping has succeeded and no verdict was cached since the last
\* successful validation at T, isOfflineValid is false at every time at or
\* after T + cacheDuration (72 hours), whatever pings and restarts happened
\* in between.
C8_GraceWindowBounded ==
    ( /\ lastOp.op = "isOfflineValid"
      /\ omCachedAt # NoTime
      /\ ~omPingOkSince
      /\ now >= omCachedAt + GraceMinutes )
    => ~lastOp.ok

(***************************************************************************)
(* Failure handling of the LicenseManager, under Spec.                     *)
(***************************************************************************)
\* a validate request that got no answer in time
TimedOut == [status |-> "timeout", body |-> NoBody]

\* answers that are a transport failure: no response, or an HTTP error other
\* than 404
TransportFailures == { o \in ValidateOutcomes : o.status \in {"timeout", "429"} }

\* the time between two attempts: none, or a full MIN_VALIDATION_INTERVAL
AttemptGaps == {0, MIN_VALIDATION_INTERVAL \div MsPerMinute}

\* C11: with a bound key and a licensed verdict, three consecutive
\* validations whose request times out (validateLicense, or
\* refreshLicenseState) leave isFeatureAvailable() true after each attempt.
C11_TimeoutsKeepVerdict ==
    (Bound(Cur) /\ isLicensed) =>
        \A g \in AttemptGaps :
            LET v1 == validateLicense(Cur, now + g, TimedOut)
                v2 == validateLicense(v1.st, now + 2 * g, TimedOut)
                v3 == validateLicense(v2.st, now + 3 * g, TimedOut)
                r1 == refreshLicenseState(Cur, now + g, TimedOut, NoOutcome)
                r2 == refreshLicenseState(r1.st, now + 2 * g, TimedOut, NoOutcome)
                r3 == refreshLicenseState(r2.st, now + 3 * g, TimedOut, NoOutcome)
            IN  /\ isFeatureAvailable(v1.st)
                /\ isFeatureAvailable(v2.st)
                /\ isFeatureAvailable(v3.st)
                /\ isFeatureAvailable(r1.st)
                /\ isFeatureAvailable(r2.st)
                /\ isFeatureAvailable(r3.st)

\* a validateLicense whose request failed left a bound, licensed state
C11_Witness ==
    /\ lastOp.op = "validate"
    /\ lastOp.path = "apierror"
    /\ lastOp.nv = 1
    /\ Bound(Cur)
    /\ isLicensed

\* C12: activateLicense on an installation whose licenseKey is bound
\* returns failure, sends no request and changes nothing: the bound
\* licenseKey, instanceId and isLicensed stay as they are.
C12_BoundKeyNotOverwritten ==
    globalState.licenseKey # NoKey =>
        \A key \in Keys : \A vout \in ValidateOutcomes :
          \A aout \in ActivateOutcomes :
            LET r == activateLicense(Cur, now, key, vout, aout)
            IN  /\ ~r.ok
                /\ r.nv = 0 /\ r.na = 0
                /\ r.st.gs.licenseKey = globalState.licenseKey
                /\ r.st.gs.instanceId = globalState.instanceId
                /\ r.st.isLicensed = isLicensed

\* an activation was turned away on a bound installation
C12_Witness ==
    /\ lastOp.op = "activate"
    /\ lastOp.path = "bound"
    /\ ~lastOp.ok
    /\ Bound(Cur)
    /\ isLicensed

\* C14: when the validate request of a refresh (refreshLicenseState, or a
\* validateLicense that sends one) fails in transport, the persisted
\* licenseKey, instanceId and apiData and the isLicensed flag are unchanged.
C14_TransportErrorKeepsState ==
    Bound(Cur) =>
        \A vout \in TransportFailures : \A g \in AttemptGaps :
            LET r == refreshLicenseState(Cur, now + g, vout, NoOutcome)
                v == validateLicense(Cur, now + g, vout)
                Same(s) == /\ s.gs.licenseKey = globalState.licenseKey
                           /\ s.gs.instanceId = globalState.instanceId
                           /\ s.gs.apiData = globalState.apiData
                           /\ s.isLicensed = isLicensed
            IN  /\ r.nv = 1 /\ Same(r.st)
                /\ v.nv = 1 => Same(v.st)

\* a refreshLicenseState whose request failed left the license bound
C14_Witness ==
    /\ lastOp.op = "refresh"
    /\ lastOp.path = "apierror"
    /\ lastOp.nv = 1
    /\ Bound(Cur)
    /\ isLicensed

\* C15: after a refresh of a bound key (refreshLicenseState, or
\* validateLicense) that received an explicit rejection, licenseKey,
\* instanceId, apiData, lastValidated and validUntil are cleared from the
\* store, isLicensed is false and the change event has fired.
C15_RejectionClearsRecord ==
    (lastOp.op \in BackgroundOps /\ lastOp.path = "rejected") =>
        /\ globalState.licenseKey = NoKey
        /\ globalState.instanceId = NoId
        /\ globalState.apiData = NoBody
        /\ globalState.lastValidated = NoTime
        /\ globalState.validUntil = NoTime
        /\ ~isLicensed
        /\ lastOp.fired >= 1

\* C16: after a deactivateLicense that found a bound license, none of
\* licenseKey, instanceId, apiData, lastValidated, validUntil is left in the
\* store.
C16_DeactivationErasesRecord ==
    (lastOp.op = "deactivate" /\ lastOp.nd = 1) =>
        /\ globalState.licenseKey = NoKey
        /\ globalState.instanceId = NoId
        /\ globalState.apiData = NoBody
        /\ globalState.lastValidated = NoTime
        /\ globalState.validUntil = NoTime

\* C17: an activateLicense that fails on an installation with no key bound
\* leaves isLicensed false and writes none of licenseKey, instanceId, apiData,
\* lastValidated to the store.
C17_FailedActivationWritesNothing ==
    (globalState.licenseKey = NoKey /\ ~isLicensed) =>
        \A key \in Keys : \A vout \in KeyValidateAnswers(TRUE) :
          \A aout \in ActivateOutcomes :
            LET r == activateLicense(Cur, now, key, vout, aout) IN
            ~r.ok =>
                /\ ~r.st.isLicensed
                /\ r.st.gs.licenseKey = globalState.licenseKey
                /\ r.st.gs.instanceId = globalState.instanceId
                /\ r.st.gs.apiData = globalState.apiData
                /\ r.st.gs.lastValidated = globalState.lastValidated

\* C18: isFeatureAvailable() is true only in Licensed (key bound, last check
\* succeeded) or OfflineGrace (key bound, authority unreachable, grace window
\* of cacheDuration hours not elapsed).  After a refresh whose request failed
\* in transport at a time when the window has elapsed the state is neither,
\* so isFeatureAvailable() is false.
C18_FeatureOnlyWhenLicensedOrGrace ==
    (Bound(Cur) /\ isLicensed /\ globalState.lastValidated # NoTime) =>
        \A vout \in TransportFailures :
            LET r == refreshLicenseState(Cur, now + GraceMinutes, vout, NoOutcome)
            IN  ~isFeatureAvailable(r.st)

(***************************************************************************)
(* The handlers step by step.  A handler runs until it awaits a request;   *)
(* while it is suspended the host may start other handlers.  A suspended   *)
(* call keeps the locals it read before the request (licenseKey,           *)
(* instanceId); everything else is read when the answer arrives.           *)
(***************************************************************************)
MaxInflight == 2
MaxAsyncTicks == 1

\* a call suspended at a request: the handler (op), the request in flight
\* (stage), its locals (key, inst), isLicensed when the request was issued
\* (pre) and whether activate() awaits the call (awaited)
Call(op, stage, key, inst, pre, awaited) ==
    [op |-> op, stage |-> stage, key |-> key, inst |-> inst, pre |-> pre,
     awaited |-> awaited]

Remove(seq, i) == SubSeq(seq, 1, i - 1) \o SubSeq(seq, i + 1, Len(seq))

\* the request leaves: nothing but the list of suspended calls changes
Suspend(op, c) ==
    /\ Len(calls) < MaxInflight
    /\ calls' = Append(calls, c)
    /\ lastOp' = OpRec(op, Res(Cur, TRUE, "sent", 0, 0, 0, 0), c.key)
    /\ UNCHANGED <<globalState, isLicensed, apiData, lastValidationCheck, lmOffline>>

\* refreshLicenseState after its validate request was answered
refreshOnAnswer(s, inst, t, vout) ==
    IF vout.status = "ok"
    THEN IF LiveAccepts(vout) /\ vout.body.instance = inst
         THEN Res([s EXCEPT !.isLicensed = TRUE, !.apiData = vout.body,
                            !.gs.apiData = vout.body,
                            !.gs.lastValidated = t,
                            !.gs.validUntil = IF vout.body.expires_at # NoTime
                                              THEN vout.body.expires_at ELSE @],
                  TRUE, "accepted", 1, 0, 0, 2)
         ELSE Res([s EXCEPT !.isLicensed = FALSE, !.apiData = NoBody,
                            !.gs.apiData = NoBody, !.gs.licenseKey = NoKey,
                            !.gs.instanceId = NoId, !.gs.lastValidated = NoTime,
                            !.gs.validUntil = NoTime],
                  TRUE, "rejected", 1, 0, 0, 2)
    ELSE IF vout.status = "404"
    THEN LET d == deactivateLicense(s, NoOutcome)
         IN Res(d.st, TRUE, "http404", 1, 0, d.nd, d.fired)
    ELSE Res(s, TRUE, "apierror", 1, 0, 0, 2)

\* validateLicense after its validate request was answered
validateOnAnswer(s, t, vout) ==
    IF vout.status # "ok" THEN Res(s, FALSE, "apierror", 1, 0, 0, 0)
    ELSE IF LiveAccepts(vout)
    THEN Res([s EXCEPT !.isLicensed = TRUE, !.apiData = vout.body,
                       !.gs.apiData = vout.body, !.gs.lastValidated = t],
             TRUE, "accepted", 1, 0, 0, 1)
    ELSE Res([s EXCEPT !.isLicensed = FALSE], FALSE, "rejected", 1, 0, 0, 1)

\* activateLicense after its activate request was answered
activateOnAnswer(s, t, key, aout) ==
    IF ~makeApiRequest(aout) THEN Res(s, FALSE, "threw", 0, 1, 0, 0)
    ELSE IF ~aout.body.activated
    THEN Res([s EXCEPT !.apiData = aout.body, !.gs.apiData = aout.body],
             FALSE, "notactivated", 0, 1, 0, 0)
    ELSE Res([s EXCEPT !.apiData = aout.body,
                       !.gs.apiData = aout.body,
                       !.gs.licenseKey = key,
                       !.gs.instanceId = aout.body.instance,
                       !.gs.lastValidated = t,
                       !.gs.validUntil = aout.body.expires_at,
                       !.isLicensed = TRUE],
             TRUE, "activated", 0, 1, 0, 1)

\* refreshLicenseState() is called: it completes at once without a bound key
\* and suspends at its validate request otherwise
StartRefresh(awaited) ==
    IF ~Bound(Cur)
    THEN /\ Apply("refresh", refreshLicenseState(Cur, now, NoOutcome, NoOutcome), NoKey)
         /\ UNCHANGED calls
    ELSE Suspend("refresh", Call("refresh", "validate", globalState.licenseKey,
                                 globalState.instanceId, isLicensed, awaited))

\* validateLicense() is called: offline, rate-limited and unbound calls
\* complete at once, the others suspend at the validate request
StartValidate(awaited) ==
    LET r == validateLicense(Cur, now, NoOutcome) IN
    IF r.nv = 0
    THEN /\ Apply("validate", r, NoKey)
         /\ UNCHANGED calls
    ELSE /\ Len(calls) < MaxInflight
         /\ calls' = Append(calls, Call("validate", "validate", globalState.licenseKey,
                                        globalState.instanceId, isLicensed, awaited))
         /\ lastValidationCheck' = now
         /\ lastOp' = OpRec("validate", Res(Cur, TRUE, "sent", 0, 0, 0, 0), NoKey)
         /\ UNCHANGED <<globalState, isLicensed, apiData, lmOffline>>

\* activateLicense(key) is called: bound installations and malformed keys are
\* turned away at once, otherwise validateLicenseKey sends its request
StartActivate(key) ==
    LET r == activateLicense(Cur, now, key, NoOutcome, NoOutcome) IN
    IF r.path \in {"bound", "format"}
    THEN /\ Apply("activate", r, key)
         /\ UNCHANGED calls
    ELSE Suspend("activate", Call("activate", "validate", key, NoId, isLicensed, FALSE))

\* deactivateLicense() is called: the local state is cleared, then the
\* deactivate request is sent
StartDeactivate ==
    LET d == deactivateLicense(Cur, NoOutcome) IN
    IF d.nd = 0
    THEN /\ Apply("deactivate", d, NoKey)
         /\ UNCHANGED calls
    ELSE /\ Len(calls) < MaxInflight
         /\ Apply("deactivate", Res(d.st, TRUE, "sent", 0, 0, 1, d.fired), NoKey)
         /\ calls' = Append(calls, Call("deactivate", "deactivate", globalState.licenseKey,
                                        globalState.instanceId, FALSE, FALSE))

asyncFrame == <<now, ticks, omVars, timerDue, errVars, fixedVars>>

\* the keys entered and the answers of the authority while handlers overlap:
\* one answer of each kind the handlers tell apart
AsyncKeys == {GoodKey, ShortKey}
AsyncValidateOutcomes ==
    { o \in ValidateOutcomes :
        /\ o.status \in {"ok", "404", "timeout"}
        /\ <<o.body.store_id, o.body.product_id>> \in {MatchingMeta, AbsentMeta}
        /\ o.body.instance \in {NoId, "i-1"}
        /\ o.body.expires_at = NoTime
        /\ ~o.body.error }
AsyncActivateOutcomes ==
    { o \in ActivateOutcomes :
        /\ o.status \in {"ok", "timeout"}
        /\ o.body.instance \in {NoId, "i-1"}
        /\ o.body.expires_at = NoTime
        /\ ~o.body.error }
AsyncDeactivateOutcomes ==
    { o \in DeactivateOutcomes : o.status \in {"ok", "timeout"} }
lmVars == <<globalState, isLicensed, apiData, lastValidationCheck, lmOffline>>

\* the handlers of the focus listener and of the panel are registered once
\* activate() got past its first await
Listening == {"awaitValidate", "running"}

\* activate() goes on when the call it awaits has returned
Resume(c) ==
    pc' = IF ~c.awaited THEN pc
          ELSE IF pc = "awaitRefresh" THEN "activateValidate" ELSE "running"

\* refreshLicenseState().catch(...) at the end of the constructor: not awaited
AsyncCtorRefresh ==
    /\ pc = "ctorRefresh"
    /\ StartRefresh(FALSE)
    /\ pc' = "activateRefresh"
    /\ UNCHANGED asyncFrame

\* await licenseManager.refreshLicenseState() in activate()
AsyncStartupRefresh ==
    /\ pc = "activateRefresh"
    /\ StartRefresh(TRUE)
    /\ pc' = IF Bound(Cur) THEN "awaitRefresh" ELSE "activateValidate"
    /\ UNCHANGED asyncFrame

\* await licenseManager.validateLicense() in activate()
AsyncStartupValidate ==
    /\ pc = "activateValidate"
    /\ StartValidate(TRUE)
    /\ pc' = IF validateLicense(Cur, now, NoOutcome).nv = 0
             THEN "running" ELSE "awaitValidate"
    /\ UNCHANGED asyncFrame

\* onDidChangeWindowState with e.focused
AsyncWindowFocus ==
    /\ pc \in Listening
    /\ StartRefresh(FALSE)
    /\ UNCHANGED <<pc, asyncFrame>>

\* activate-license message of the subscription panel
AsyncActivateMessage ==
    /\ pc \in Listening
    /\ \E key \in AsyncKeys : StartActivate(key)
    /\ UNCHANGED <<pc, asyncFrame>>

\* deactivate-license message of the subscription panel
AsyncDeactivateMessage ==
    /\ pc \in Listening
    /\ StartDeactivate
    /\ UNCHANGED <<pc, asyncFrame>>

\* the validate request of a refreshLicenseState is answered; on 404 the
\* handler goes on into deactivateLicense and suspends at its request
RefreshAnswered ==
    \E i \in 1..Len(calls) : \E vout \in AsyncValidateOutcomes :
        LET c == calls[i]
            r == refreshOnAnswer(Cur, c.inst, now, vout) IN
        /\ c.op = "refresh" /\ c.stage = "validate"
        /\ Apply("refresh", r, NoKey)
        /\ IF r.nd = 1
           THEN /\ calls' = [calls EXCEPT ![i].stage = "deactivate", ![i].pre = FALSE]
                /\ UNCHANGED pc
           ELSE /\ calls' = Remove(calls, i)
                /\ Resume(c)
        /\ UNCHANGED asyncFrame

\* the validate request of a validateLicense is answered
ValidateAnswered ==
    \E i \in 1..Len(calls) : \E vout \in AsyncValidateOutcomes :
        LET c == calls[i] IN
        /\ c.op = "validate" /\ c.stage = "validate"
        /\ Apply("validate", validateOnAnswer(Cur, now, vout), NoKey)
        /\ calls' = Remove(calls, i)
        /\ Resume(c)
        /\ UNCHANGED asyncFrame

\* the validate request of an activateLicense is answered: the handler
\* returns the failure, or sends the activate request
ActivateValidated ==
    \E i \in 1..Len(calls) : \E vout \in KeyValidateAnswers(TRUE) \cap AsyncValidateOutcomes :
        LET c == calls[i]
            v == validateLicenseKey(c.key, vout) IN
        /\ c.op = "activate" /\ c.stage = "validate"
        /\ IF v.success
           THEN /\ calls' = [calls EXCEPT ![i].stage = "activate", ![i].pre = isLicensed]
                /\ lastOp' = OpRec("activate", Res(Cur, TRUE, "sent", 1, 0, 0, 0), c.key)
           ELSE /\ calls' = Remove(calls, i)
                /\ lastOp' = OpRec("activate", Res(Cur, FALSE, v.message, 1, 0, 0, 0), c.key)
        /\ UNCHANGED <<lmVars, pc, asyncFrame>>

\* the activate request of an activateLicense is answered
ActivateAnswered ==
    \E i \in 1..Len(calls) : \E aout \in AsyncActivateOutcomes :
        LET c == calls[i] IN
        /\ c.op = "activate" /\ c.stage = "activate"
        /\ Apply("activate", activateOnAnswer(Cur, now, c.key, aout), c.key)
        /\ calls' = Remove(calls, i)
        /\ UNCHANGED <<pc, asyncFrame>>

\* the deactivate request of a deactivateLicense is answered: the handler
\* returns, the local state was cleared before
DeactivateAnswered ==
    \E i \in 1..Len(calls) : \E dout \in AsyncDeactivateOutcomes :
        LET c == calls[i]
            ok == dout.status = "ok" IN
        /\ c.stage = "deactivate"
        /\ lastOp' = IF c.op = "refresh"
                     THEN OpRec("refresh", Res(Cur, TRUE, "http404", 0, 0, 1, 2), NoKey)
                     ELSE OpRec("deactivate",
                                Res(Cur, ok, IF ok THEN "cleared" ELSE "apierror",
                                    0, 0, 1, 0), NoKey)
        /\ calls' = Remove(calls, i)
        /\ Resume(c)
        /\ UNCHANGED <<lmVars, asyncFrame>>

TickAsync == Advance(MIN_VALIDATION_INTERVAL \div MsPerMinute, MaxAsyncTicks)

NextAsync ==
    \/ AsyncCtorRefresh
    \/ AsyncStartupRefresh
    \/ AsyncStartupValidate
    \/ AsyncWindowFocus
    \/ AsyncActivateMessage
    \/ AsyncDeactivateMessage
    \/ RefreshAnswered
    \/ ValidateAnswered
    \/ ActivateValidated
    \/ ActivateAnswered
    \/ DeactivateAnswered
    \/ Restart
    \/ TickAsync

SpecAsync == Init /\ [][NextAsync]_vars

(***************************************************************************)
(* Ordering and overlap of the handlers, under SpecAsync.                  *)
(***************************************************************************)
Unbound == /\ globalState.licenseKey = NoKey
           /\ globalState.instanceId = NoId
           /\ globalState.apiData = NoBody
           /\ apiData = NoBody
           /\ ~isLicensed

C19_OneTransitionAtATime == Len(calls) <= 1

\* C20: as long as a request sent by activateLicense or refreshLicenseState
\* is unanswered, isLicensed has the value it had when the request was sent.
C20_FlagStableWhilePending ==
    \A i \in 1..Len(calls) :
        calls[i].op \in {"activate", "refresh"} => isLicensed = calls[i].pre

(***************************************************************************)
(* withRetry and the error history.                                        *)
(* retry: phase is "idle", "running" (about to invoke the operation),      *)
(* "waiting" (in the retryDelay), "returned" or "thrown"; i is the loop    *)
(* variable, invoked / failed / delays count the invocations of the        *)
(* operation, its failures and the delays waited, thrownAt is the attempt  *)
(* whose error was re-thrown, n counts the withRetry calls.                *)
(***************************************************************************)
MaxRetryCalls == 2
MaxRetryTicks == 3

ErrorEntry(code, retryable, t) ==
    [code |-> code, retryable |-> retryable, timestamp |-> t]

\* mutant: the entry takes the default of the flag, not the call's
logErrorDefaultFlag(errors, code, retryable, t) ==
    Append(errors, ErrorEntry(code, TRUE, t))

\* logError: push { ...error, timestamp: now }
logError(errors, code, retryable, t) ==
    Append(errors, ErrorEntry(code, retryable, t))

\* Array.prototype.slice(-n): the last n elements, and all of them when
\* n is 0, since -0 is the start index 0
sliceLast(seq, n) ==
    IF n = 0 \/ Len(seq) <= n THEN seq
    ELSE SubSeq(seq, Len(seq) - n + 1, Len(seq))

\* cleanupErrors: the filter on timestamp, age and code, then
\* slice(-maxErrors)
cleanupErrors(errors, t, cfg) ==
    LET keep(e) ==
            IF e.timestamp = NoTime THEN FALSE
            ELSE LET age == t - e.timestamp
                     keepError == age < cfg.cleanupInterval * MinutesPerDay
                 IN  keepError \/ (cfg.retainFailedAttempts
                                    /\ e.code = "VALIDATION_FAILED")
    IN  sliceLast(SelectSeq(errors, keep), cfg.maxErrors)

\* mutant: a call that is not retryable waits and goes on like any other
withRetryCatchIgnoresFlag(r) ==
    IF r.i = maxRetries - 1
    THEN [r EXCEPT !.phase = "thrown", !.thrownAt = r.i + 1]
    ELSE [r EXCEPT !.phase = "waiting"]

\* mutant: the last attempt is not recognised, the loop runs out and throws
\* 'Max retries reached' after one more delay
withRetryCatchNoLastAttempt(r) ==
    IF ~r.retryable
    THEN [r EXCEPT !.phase = "thrown", !.thrownAt = r.i + 1]
    ELSE [r EXCEPT !.phase = "waiting"]

\* the catch block of withRetry after logError: throw or wait
withRetryCatch(r) ==
    LET isLastAttempt == r.i = maxRetries - 1 IN
    IF isLastAttempt \/ ~r.retryable
    THEN [r EXCEPT !.phase = "thrown", !.thrownAt = r.i + 1]
    ELSE [r EXCEPT !.phase = "waiting"]

\* one pass of the loop body: the operation is invoked and returns or throws
withRetryAttempt(r, throws) ==
    IF ~throws
    THEN [r EXCEPT !.phase = "returned", !.invoked = @ + 1]
    ELSE withRetryCatch([r EXCEPT !.invoked = @ + 1, !.failed = @ + 1])

\* the retryDelay is over: i++ and the loop condition
withRetryNext(r) ==
    IF r.i + 1 < maxRetries
    THEN [r EXCEPT !.phase = "running", !.i = @ + 1, !.delays = @ + 1]
    ELSE [r EXCEPT !.phase = "thrown", !.i = @ + 1, !.delays = @ + 1,
                   !.thrownAt = 0]

retryFrame == <<globalState, isLicensed, apiData, lastValidationCheck, lmOffline,
                omVars, pc, timerDue, lastOp, calls, now, ticks, trialStartDate>>

\* withRetry(operation, retryable) is called
RetryCall ==
    /\ retry.phase \in {"idle", "returned", "thrown"}
    /\ retry.n < MaxRetryCalls
    /\ ~cleanupDue
    /\ \E retryable \in BOOLEAN :
          retry' = [NoRetry EXCEPT !.phase = "running", !.retryable = retryable,
                                   !.n = retry.n + 1]
    /\ UNCHANGED <<validationErrors, cleanupDue, config, retryFrame>>

\* the operation is invoked; a failure is logged before the catch block
\* throws or waits
RetryAttempt ==
    /\ retry.phase = "running"
    /\ ~cleanupDue
    /\ \E throws \in BOOLEAN :
          /\ retry' = withRetryAttempt(retry, throws)
          /\ validationErrors' =
                IF throws
                THEN logError(validationErrors, "RETRY_ERROR", retry.retryable, now)
                ELSE validationErrors
    /\ UNCHANGED <<cleanupDue, config, retryFrame>>

\* the timeout of retryDelay fires
RetryDelayElapsed ==
    /\ retry.phase = "waiting"
    /\ ~cleanupDue
    /\ retry' = withRetryNext(retry)
    /\ UNCHANGED <<validationErrors, cleanupDue, config, retryFrame>>

\* the interval of startErrorCleanup fires
CleanupErrors ==
    /\ cleanupDue
    /\ validationErrors' = cleanupErrors(validationErrors, now, config)
    /\ cleanupDue' = FALSE
    /\ UNCHANGED <<retry, config, retryFrame>>

DeltasRetry == {MinutesPerDay, CleanupPeriod - MinutesPerDay}

TickRetry == \E d \in DeltasRetry : Advance(d, MaxRetryTicks)

NextRetry ==
    \/ RetryCall
    \/ RetryAttempt
    \/ RetryDelayElapsed
    \/ CleanupErrors
    \/ TickRetry

SpecRetry == Init /\ [][NextRetry]_vars

(***************************************************************************)
(* Retries, the error history and notifications.                           *)
(***************************************************************************)
\* C21: a background validation (validateLicense, refreshLicenseState) whose
\* validate request failed in transport has sent the request again: more
\* than one validate request by the time the call completes.
C21_TransportFailureRetried ==
    (lastOp.op \in BackgroundOps /\ lastOp.path = "apierror") => lastOp.nv > 1

\* C22: when a live validation (validateLicense, refreshLicenseState) has
\* accepted the license, an offline cache (the LicenseManager's or the
\* OfflineModeManager's) holds the verdict licensed with lastOnlineCheck at
\* the time of that validation.
C22_ValidationRefreshesOfflineCache ==
    (lastOp.op \in BackgroundOps /\ lastOp.path = "accepted")
    => \E off \in {lmOffline, omOffline} :
          off.isLicensed /\ off.lastOnlineCheck = now

\* C23: a connectivity ping that failed leaves isOnline false and the cached
\* verdict as it was: its isLicensed flag and the timestamp (lastOnlineCheck)
\* from which isOfflineValid measures the grace window.
C23_FailedPingKeepsVerdict ==
    [][ (lastOp'.op = "checkConnectivity" /\ ~lastOp'.ok)
        => ( /\ ~omIsOnline'
             /\ omOffline'.isLicensed = omOffline.isLicensed
             /\ omOffline'.lastOnlineCheck = omOffline.lastOnlineCheck ) ]_vars

ErrorPaths == {"format", "invalid", "store", "product", "error", "http404",
               "http429", "apierror", "threw", "notactivated", "rejected"}

\* C25: when activateLicense, deactivateLicense or validateLicense has ended
\* in an error, the error history holds an entry.
C25_ErrorsReachHistory ==
    (lastOp.op \in {"activate", "deactivate", "validate"} /\ lastOp.path \in ErrorPaths)
    => validationErrors # << >>

\* C26: every step that changes isLicensed is a call that fired
\* onLicenseChange; in each handler the event is fired by the
\* updateStatusBarItem that follows the assignment of the flag.
C26_VerdictChangeNotified ==
    [][ isLicensed' # isLicensed => lastOp'.fired >= 1 ]_vars

\* an activation has turned the verdict to licensed and fired the event
C26_Witness ==
    /\ lastOp.op = "activate"
    /\ lastOp.path = "activated"
    /\ lastOp.fired >= 1
    /\ isLicensed

\* C27: withRetry invokes the operation at most maxRetries times; when it
\* has returned, the attempt that succeeded was the last invocation; when a
\* retryable call has thrown, every one of exactly maxRetries invocations
\* failed and the error thrown is the one of the last attempt.
C27_RetryBounded ==
    /\ retry.invoked <= maxRetries
    /\ retry.phase = "returned" => retry.invoked = retry.failed + 1
    /\ (retry.phase = "thrown" /\ retry.retryable)
       => ( /\ retry.invoked = maxRetries
            /\ retry.failed = maxRetries
            /\ retry.thrownAt = maxRetries )

\* a retryable call gave up after maxRetries failed attempts
C27_Witness ==
    /\ retry.phase = "thrown"
    /\ retry.retryable
    /\ retry.failed = maxRetries
    /\ retry.delays = maxRetries - 1

\* C28: a withRetry call with retryable = false never waits a retry delay
\* and never invokes the operation twice: once its first attempt has failed
\* it has thrown the error of that attempt.
C28_NotRetryableThrowsAtOnce ==
    ~retry.retryable =>
        /\ retry.delays = 0
        /\ retry.invoked <= 1
        /\ retry.failed >= 1 => ( /\ retry.phase = "thrown"
                                  /\ retry.thrownAt = 1
                                  /\ retry.invoked = 1 )

\* a call that is not retryable has thrown
C28_Witness ==
    /\ retry.phase = "thrown"
    /\ ~retry.retryable
    /\ retry.invoked = 1
    /\ retry.failed = 1

\* C29: a step of withRetry in which an attempt fails appends exactly one
\* entry, with code RETRY_ERROR, the retryable flag of the call and the
\* current time, to the error history; no other step of withRetry adds or
\* removes an entry (entries are removed by cleanupErrors only).
C29_OneEntryPerFailedAttempt ==
    [][ IF retry'.n = retry.n /\ retry'.failed = retry.failed + 1
        THEN validationErrors' =
                Append(validationErrors,
                       ErrorEntry("RETRY_ERROR", retry.retryable, now))
        ELSE \/ validationErrors' = validationErrors
             \/ cleanupDue /\ ~cleanupDue' ]_vars

\* one call has ended after maxRetries failures with as many entries logged
C29_Witness ==
    /\ retry.phase = "thrown"
    /\ retry.n = 1
    /\ retry.failed = maxRetries
    /\ Len(validationErrors) = maxRetries
    /\ \A k \in 1..Len(validationErrors) :
          /\ validationErrors[k].code = "RETRY_ERROR"
          /\ validationErrors[k].retryable = retry.retryable

\* C30: an activateLicense call has sent at most one validate and at most one
\* activate request and no deactivate request; a deactivateLicense call has
\* sent at most one deactivate request and nothing else; whatever the
\* answers were.
C30_OneShotUserActions ==
    /\ lastOp.op = "activate"
       => lastOp.nv <= 1 /\ lastOp.na <= 1 /\ lastOp.nd = 0
    /\ lastOp.op = "deactivate"
       => lastOp.nd <= 1 /\ lastOp.nv = 0 /\ lastOp.na = 0

\* an activation whose activate request failed: one request of each kind
C30_Witness ==
    /\ lastOp.op = "activate"
    /\ lastOp.path = "threw"
    /\ lastOp.nv = 1
    /\ lastOp.na = 1

(***************************************************************************)
(* Order of steps, preconditions and restarts.                             *)
(***************************************************************************)
\* the outcomes of activateLicense in which validateLicenseKey did not
\* report a valid key of the configured store and product
ValidateFailures == {"invalid", "store", "product", "error", "http404",
                     "http429", "apierror"}

\* C31: an activateLicense call whose key fails the format check has sent no
\* request; one that sent the activate request has sent the validate request
\* as well; and one whose validate request did not report a valid key of the
\* configured store and product has sent no activate request.
C31_ActivationStepsOrdered ==
    lastOp.op = "activate" =>
        /\ ~KeyFormatOK(lastOp.key) => (lastOp.nv = 0 /\ lastOp.na = 0)
        /\ lastOp.na >= 1 => lastOp.nv >= 1
        /\ lastOp.path \in ValidateFailures => (lastOp.nv = 1 /\ lastOp.na = 0)

\* validate, then activate: an activation went through both requests
C31_Witness ==
    /\ lastOp.op = "activate"
    /\ lastOp.path = "activated"
    /\ KeyFormatOK(lastOp.key)
    /\ lastOp.nv = 1
    /\ lastOp.na = 1

\* C32: a deactivateLicense call made while licenseKey or instanceId is not
\* persisted returns failure ('No active license found.'), sends no request
\* and leaves the store, apiData and isLicensed as they were.
C32_DeactivateNeedsBinding ==
    [][ (lastOp'.op = "deactivate" /\ ~Bound(Cur))
        => ( /\ ~lastOp'.ok
             /\ lastOp'.path = "noactive"
             /\ lastOp'.nv = 0 /\ lastOp'.na = 0 /\ lastOp'.nd = 0
             /\ UNCHANGED <<globalState, isLicensed, apiData>> ) ]_vars

\* deactivateLicense was turned away on an installation without a key
C32_Witness ==
    /\ lastOp.op = "deactivate"
    /\ lastOp.path = "noactive"
    /\ ~lastOp.ok
    /\ ~Bound(Cur)

\* C38: when validateLicense has returned, the boolean it returned is the
\* value of isFeatureAvailable().
C38_ResultMatchesGate ==
    lastOp.op = "validate" => lastOp.ok = isFeatureAvailable(Cur)

\* C39: the constructor that runs on the store right after a validateLicense
\* in which the authority rejected the bound key leaves isFeatureAvailable()
\* false.
C39_RejectionSurvivesRestart ==
    [][ (lastOp.op = "validate" /\ lastOp.path = "rejected"
         /\ lastOp'.op = "construct")
        => ~isFeatureAvailable(Cur)' ]_vars

(***************************************************************************)
(* Overlapping handlers, under SpecAsync.                                  *)
(***************************************************************************)
\* C34: when no handler call is under way, isLicensed implies that
\* licenseKey and instanceId are both persisted.
C34_LicensedImpliesBound ==
    calls = << >> => (isLicensed => Bound(Cur))

\* a key the authority accepts and the answers of a successful activation
AcceptedKeyAnswer == [status |-> "ok", body |-> VBody(TRUE, MatchingMeta, NoId, NoTime)]
ActivatedAnswer ==
    [status |-> "ok", body |-> ABody(TRUE, FALSE, MatchingMeta, "i-1", NoTime)]

\* C36: an accepting answer to the validate request of a refreshLicenseState
\* or validateLicense that arrives when the store holds no bound key any
\* more (a deactivateLicense cleared it meanwhile) does not leave isLicensed
\* true.
C36_LateAnswerKeepsCleared ==
    [][ ( /\ lastOp'.op \in {"refresh", "validate"}
          /\ lastOp'.path = "accepted"
          /\ ~Bound(Cur) )
        => ~isLicensed' ]_vars

(***************************************************************************)
(* The store writes of activateLicense and deactivateLicense one at a      *)
(* time. Each globalState.update() is awaited: the memento holds the       *)
(* value once update() was called, and other handlers run before the call  *)
(* goes on, as they do at a request. The stage of a suspended call names   *)
(* the update it awaits. The authority creates an instance of its own for  *)
(* every activation.                                                       *)
(***************************************************************************)
WriteKeys == {GoodKey, LooseKey}
IssuedInstance(key) == IF key = GoodKey THEN "i-1" ELSE "i-2"

\* the answers to the activate request of a key
WriteActivateOutcomes(key) ==
    { o \in ActivateOutcomes :
        /\ o.status \in {"ok", "timeout"}
        /\ o.body.instance = IF o.body.activated THEN IssuedInstance(key) ELSE NoId
        /\ o.body.expires_at = NoTime
        /\ ~o.body.error }

UpdateStages == {"update:apiData", "update:licenseKey", "update:instanceId",
                 "update:lastValidated", "update:validUntil"}

\* activateLicense goes on after an awaited update, up to the next one:
\* the state it leaves and the stage it waits at
activateAfterUpdate(s, c, t) ==
    CASE c.stage = "update:apiData" ->
            [st |-> [s EXCEPT !.gs.licenseKey = c.key], stage |-> "update:licenseKey"]
      [] c.stage = "update:licenseKey" ->
            [st |-> [s EXCEPT !.gs.instanceId = c.inst], stage |-> "update:instanceId"]
      [] c.stage = "update:instanceId" ->
            [st |-> [s EXCEPT !.gs.lastValidated = t], stage |-> "update:lastValidated"]
      [] c.stage = "update:lastValidated" ->
            [st |-> [s EXCEPT !.gs.validUntil = NoTime], stage |-> "update:validUntil"]
      [] OTHER -> [st |-> [s EXCEPT !.isLicensed = TRUE], stage |-> "done"]

\* deactivateLicense goes on after an awaited update, up to the next await
deactivateAfterUpdate(s, c) ==
    CASE c.stage = "update:licenseKey" ->
            [st |-> [s EXCEPT !.gs.instanceId = NoId], stage |-> "update:instanceId"]
      [] c.stage = "update:instanceId" ->
            [st |-> [s EXCEPT !.gs.apiData = NoBody], stage |-> "update:apiData"]
      [] OTHER -> [st |-> [s EXCEPT !.apiData = NoBody, !.isLicensed = FALSE], stage |-> "deactivate"]

\* activate-license message of the subscription panel
WritesActivateMessage ==
    /\ pc \in Listening
    /\ \E key \in WriteKeys : StartActivate(key)
    /\ UNCHANGED <<pc, asyncFrame>>

\* the activate request is answered: an activation that was granted
\* records the response and waits for update('apiData')
WritesActivateAnswered ==
    \E i \in 1..Len(calls) : \E aout \in WriteActivateOutcomes(calls[i].key) :
        LET c == calls[i]
            r == activateOnAnswer(Cur, now, c.key, aout) IN
        /\ c.op = "activate" /\ c.stage = "activate"
        /\ IF r.path = "activated"
           THEN /\ apiData' = aout.body
                /\ globalState' = [globalState EXCEPT !.apiData = aout.body]
                /\ calls' = [calls EXCEPT ![i].stage = "update:apiData",
                                          ![i].inst = aout.body.instance]
                /\ lastOp' = OpRec("activate", Res(Cur, TRUE, "sent", 0, 1, 0, 0), c.key)
                /\ UNCHANGED <<isLicensed, lastValidationCheck, lmOffline>>
           ELSE /\ Apply("activate", r, c.key)
                /\ calls' = Remove(calls, i)
        /\ UNCHANGED <<pc, asyncFrame>>

\* deactivate-license message of the subscription panel: without a bound
\* key the call returns, otherwise it clears licenseKey and waits
WritesDeactivateMessage ==
    /\ pc \in Listening
    /\ IF ~Bound(Cur)
       THEN /\ Apply("deactivate", deactivateLicense(Cur, NoOutcome), NoKey)
            /\ UNCHANGED calls
       ELSE /\ Len(calls) < MaxInflight
            /\ globalState' = [globalState EXCEPT !.licenseKey = NoKey]
            /\ calls' = Append(calls, Call("deactivate", "update:licenseKey",
                                           globalState.licenseKey,
                                           globalState.instanceId, isLicensed, FALSE))
            /\ lastOp' = OpRec("deactivate", Res(Cur, TRUE, "sent", 0, 0, 0, 0), NoKey)
            /\ UNCHANGED <<isLicensed, apiData, lastValidationCheck, lmOffline>>
    /\ UNCHANGED <<pc, asyncFrame>>

\* an awaited update completes and the call goes on to its next await
StoreUpdated ==
    \E i \in 1..Len(calls) :
        LET c == calls[i]
            n == IF c.op = "activate" THEN activateAfterUpdate(Cur, c, now)
                 ELSE deactivateAfterUpdate(Cur, c) IN
        /\ c.stage \in UpdateStages
        /\ globalState' = n.st.gs
        /\ isLicensed' = n.st.isLicensed
        /\ apiData' = n.st.apiData
        /\ calls' = IF n.stage = "done" THEN Remove(calls, i)
                    ELSE [calls EXCEPT ![i].stage = n.stage]
        /\ lastOp' = OpRec(c.op,
                           Res(n.st, TRUE,
                               IF n.stage = "done" THEN "activated" ELSE "sent",
                               0, 0, IF n.stage = "deactivate" THEN 1 ELSE 0,
                               IF n.stage \in {"done", "deactivate"} THEN 1 ELSE 0),
                           IF c.op = "activate" THEN c.key ELSE NoKey)
        /\ UNCHANGED <<lastValidationCheck, lmOffline, pc, asyncFrame>>

NextWrites ==
    \/ AsyncCtorRefresh
    \/ AsyncStartupRefresh
    \/ AsyncStartupValidate
    \/ WritesActivateMessage
    \/ WritesDeactivateMessage
    \/ ActivateValidated
    \/ WritesActivateAnswered
    \/ StoreUpdated
    \/ DeactivateAnswered

SpecWrites == Init /\ [][NextWrites]_vars

\* C37: when no call is pending, the licenseKey and the instanceId in the
\* store are those of one activation: the instance is the one the authority
\* created for that key.
C37_KeyAndInstanceOfOneActivation ==
    (calls = << >> /\ Bound(Cur)) =>
        globalState.instanceId = IssuedInstance(globalState.licenseKey)

\* C35: when no call is pending and a licenseKey is persisted, the
\* instanceId is persisted too, so deactivateLicense is not turned away;
\* whatever the answer to its request, it leaves the installation without
\* key, instance and verdict, and an activation made then is not refused.
C35_BoundKeyCanBeReleased ==
    (calls = << >> /\ globalState.licenseKey # NoKey) =>
        /\ Bound(Cur)
        /\ \A dout \in DeactivateOutcomes :
              LET d == deactivateLicense(Cur, dout) IN
              /\ d.path # "noactive"
              /\ d.st.gs.licenseKey = NoKey
              /\ d.st.gs.instanceId = NoId
              /\ ~d.st.isLicensed
              /\ activateLicense(d.st, now, GoodKey, AcceptedKeyAnswer,
                                 ActivatedAnswer).ok

(***************************************************************************)
(* cleanupErrors on its own: the interval has fired on day 14 and finds    *)
(* any history of up to MaxHistory entries, under any errorTracking        *)
(* configuration with maxErrors up to MaxErrorsSetting. An entry is 8, 7   *)
(* or 1 days old or has no timestamp.                                      *)
(***************************************************************************)
MaxHistory == 3
MaxErrorsSetting == 2

CleanupAt == 2 * CleanupPeriod

HistoryEntries ==
    { ErrorEntry(code, TRUE, ts) :
        code \in {"RETRY_ERROR", "VALIDATION_FAILED"},
        ts \in {NoTime, CleanupAt - CleanupPeriod - MinutesPerDay,
                CleanupAt - CleanupPeriod, CleanupAt - MinutesPerDay} }

Histories == UNION { [1..n -> HistoryEntries] : n \in 0..MaxHistory }

ErrorTrackingSettings ==
    [maxErrors : 0..MaxErrorsSetting, cleanupInterval : {cleanupInterval},
     retainFailedAttempts : BOOLEAN]

InitCleanup ==
    /\ now = CleanupAt
    /\ ticks = 0
    /\ globalState = EmptyStore
    /\ isLicensed = FALSE
    /\ apiData = NoBody
    /\ lastValidationCheck = 0
    /\ lmOffline = DefaultOffline(0)
    /\ omOffline = DefaultOffline(0)
    /\ omIsOnline = TRUE
    /\ pc = "running"
    /\ timerDue = FALSE
    /\ lastOp = OpRec("tick", Step("tick", TRUE), NoKey)
    /\ omCachedAt = NoTime
    /\ omPingOkSince = FALSE
    /\ calls = << >>
    /\ validationErrors \in Histories
    /\ retry = NoRetry
    /\ cleanupDue = TRUE
    /\ config \in ErrorTrackingSettings
    /\ trialStartDate = NoTime

SpecCleanup == InitCleanup /\ [][CleanupErrors]_vars

TRIAL_PERIOD_DAYS == 14
MaxTrialTicks == 3

\* isTrialValid(): a trial was started and now is before its end
isTrialValid(start, t) ==
    IF start = NoTime THEN FALSE
    ELSE t < start + TRIAL_PERIOD_DAYS * MinutesPerDay

\* mutant: every call starts the trial anew
startTrialRestarts(start, t) == t

\* startTrial(): the trialStartDate it leaves
startTrial(start, t) == IF start = NoTime THEN t ELSE start

\* isFeatureAvailable() of the revision with the trial
isFeatureAvailableInTrial(licensed, start, t) ==
    licensed \/ isTrialValid(start, t)

\* activateLicense(key) of that revision
trialActivateLicense(s, key, vout, aout) ==
    IF ~(vout.status = "ok" /\ LiveAccepts(vout))
    THEN Res(s, FALSE, "invalid", 1, 0, 0, 0)
    ELSE IF aout.status = "ok" /\ aout.body.activated
    THEN Res([s EXCEPT !.gs.licenseKey = key,
                       !.gs.instanceId = aout.body.instance,
                       !.isLicensed = TRUE],
             TRUE, "activated", 1, 1, 0, 0)
    ELSE Res(s, FALSE, "notactivated", 1, 1, 0, 0)

\* validateLicense() of that revision
trialValidateLicense(s, vout) ==
    IF ~Bound(s) THEN Res(s, FALSE, "nokey", 0, 0, 0, 0)
    ELSE IF vout.status # "ok" THEN Res(s, FALSE, "apierror", 1, 0, 0, 0)
    ELSE IF LiveAccepts(vout)
    THEN Res([s EXCEPT !.isLicensed = TRUE], TRUE, "accepted", 1, 0, 0, 0)
    ELSE Res([s EXCEPT !.isLicensed = FALSE], FALSE, "rejected", 1, 0, 0, 0)

\* deactivateLicense() of that revision: the store is cleared once the
\* authority confirmed
trialDeactivateLicense(s, dout) ==
    IF ~Bound(s) THEN Res(s, FALSE, "noactive", 0, 0, 0, 0)
    ELSE IF dout.status = "ok" /\ dout.body.deactivated
    THEN Res([s EXCEPT !.gs.licenseKey = NoKey, !.gs.instanceId = NoId,
                       !.isLicensed = FALSE],
             TRUE, "cleared", 0, 0, 1, 0)
    ELSE Res(s, FALSE, "apierror", 0, 0, 1, 0)

trialFrame == <<now, ticks, omVars, pc, timerDue, calls, errVars, config>>

StartTrial ==
    /\ trialStartDate' = startTrial(trialStartDate, now)
    /\ globalState' =
          [globalState EXCEPT !.trialStartDate =
              IF trialStartDate = NoTime THEN startTrial(trialStartDate, now)
              ELSE @]
    /\ lastOp' = OpRec("startTrial", Step("startTrial", TRUE), NoKey)
    /\ UNCHANGED <<isLicensed, apiData, lastValidationCheck, lmOffline, trialFrame>>

TrialActivate ==
    /\ \E vout \in AsyncValidateOutcomes : \E aout \in AsyncActivateOutcomes :
          Apply("activate", trialActivateLicense(Cur, GoodKey, vout, aout), GoodKey)
    /\ UNCHANGED <<trialStartDate, trialFrame>>

TrialValidate ==
    /\ \E vout \in AsyncValidateOutcomes :
          Apply("validate", trialValidateLicense(Cur, vout), NoKey)
    /\ UNCHANGED <<trialStartDate, trialFrame>>

TrialDeactivate ==
    /\ \E dout \in AsyncDeactivateOutcomes :
          Apply("deactivate", trialDeactivateLicense(Cur, dout), NoKey)
    /\ UNCHANGED <<trialStartDate, trialFrame>>

\* the process is restarted: the constructor of that revision reads
\* trialStartDate from the store and starts with isLicensed false
TrialRestart ==
    /\ isLicensed' = FALSE
    /\ trialStartDate' = globalState.trialStartDate
    /\ lastOp' = OpRec("construct", Constructed, NoKey)
    /\ UNCHANGED <<globalState, apiData, lastValidationCheck, lmOffline, trialFrame>>

DeltasTrial == {MinutesPerDay, (TRIAL_PERIOD_DAYS - 1) * MinutesPerDay}

TickTrial == \E d \in DeltasTrial : Advance(d, MaxTrialTicks)

NextTrial ==
    \/ StartTrial
    \/ TrialActivate
    \/ TrialValidate
    \/ TrialDeactivate
    \/ TrialRestart
    \/ TickTrial

SpecTrial == Init /\ [][NextTrial]_vars

\* C40: once a trial was started no step changes trialStartDate, in memory
\* or in the store, so a later startTrial leaves the first start; and when
\* TRIAL_PERIOD_DAYS days have passed since it and the installation is not
\* licensed, isFeatureAvailable() is false.
C40_TrialStartedOnce ==
    [][ /\ trialStartDate # NoTime =>
              /\ trialStartDate' = trialStartDate
              /\ globalState'.trialStartDate = globalState.trialStartDate
        /\ ( /\ trialStartDate' # NoTime
             /\ now' >= trialStartDate' + TRIAL_PERIOD_DAYS * MinutesPerDay
             /\ ~isLicensed' )
           => ~isFeatureAvailableInTrial(isLicensed', trialStartDate', now')
      ]_vars

\* startTrial was called again when the trial it started first had run out
C40_Witness ==
    /\ lastOp.op = "startTrial"
    /\ trialStartDate # NoTime
    /\ globalState.trialStartDate = trialStartDate
    /\ now >= trialStartDate + TRIAL_PERIOD_DAYS * MinutesPerDay
    /\ ~isLicensed
    /\ ~isFeatureAvailableInTrial(isLicensed, trialStartDate, now)

====
